---------------------------- MODULE Spec2Model ----------------------------
(***************************************************************************)
(* Model of resize-image.ts: the three exported entry points resizeImage,  *)
(* resizeImageWidth and resizeImageHeight, the validator, the FileReader   *)
(* and Image callback chains and the canvas resizer.  The options-object   *)
(* entry point resizeImg is documented in README.md but has no code in     *)
(* resize-image.ts; it is modelled from the specification (section FLEX).  *)
(*                                                                         *)
(* JavaScript numbers are modelled as exact rationals <<n, d>> (d > 0, in  *)
(* lowest terms); media types (File.type, the type given to toDataURL) are *)
(* sequences of characters; messages are sequences of fragments, a         *)
(* fragment being literal text or an interpolated value.                   *)
(***************************************************************************)
EXTENDS Integers, Sequences, FiniteSets, TLC

\* ------------------------------------------------------------------ bounds
\* Requested and intrinsic pixel sizes range over 1..MaxDim (plus the
\* 1000x500 -> 400 example of the documentation).
MaxDim == 2

\* ----------------------------------------------------------------- numbers
RECURSIVE GCD(_, _)
GCD(a, b) == IF b = 0 THEN a ELSE GCD(b, a % b)

\* the rational n/d in lowest terms (n >= 0, d > 0)
Norm(n, d) == <<n \div GCD(n, d), d \div GCD(n, d)>>

Num(k) == <<k, 1>>

\* JavaScript `a / b` and `a * b` on (non-negative) numbers
Div(a, b) == Norm(a[1] * b[2], a[2] * b[1])

Mul(a, b) == Norm(a[1] * b[1], a[2] * b[2])

\* JavaScript `a < b` and `a > b`
Lt(a, b) == a[1] * b[2] < b[1] * a[2]

Gt(a, b) == Lt(b, a)

\* WebIDL conversion of a non-negative number to `unsigned long`
\* (HTMLCanvasElement.width / height): the fraction is dropped.
ToUnsignedLong(a) == a[1] \div a[2]

\* the JavaScript value `undefined` (an absent optional argument)
undefined == <<>>

\* ----------------------------------------------------------------- strings
\* String.prototype.startsWith on character sequences
StartsWith(s, p) == Len(s) >= Len(p) /\ SubSeq(s, 1, Len(p)) = p

ImagePrefix == <<"i", "m", "a", "g", "e", "/">>

ImagePng == <<"i", "m", "a", "g", "e", "/", "p", "n", "g">>

ImageJpeg == <<"i", "m", "a", "g", "e", "/", "j", "p", "e", "g">>

ImageWebp == <<"i", "m", "a", "g", "e", "/", "w", "e", "b", "p">>

TextPlain == <<"t", "e", "x", "t", "/", "p", "l", "a", "i", "n">>

\* a message fragment: literal text, or an interpolated `${...}` value
Text(s) == [text |-> s]

\* ------------------------------------------------------------------ Result
\* type Ok<T> = { ok: true, value: T }
IsOk(r) == DOMAIN r = {"ok", "value"} /\ r.ok = TRUE

\* type Err<E> = { ok: false, error: E }
IsErr(r) == DOMAIN r = {"ok", "error"} /\ r.ok = FALSE

\* type Result<T, E> = Ok<T> | Err<E>
IsResult(r) == IsOk(r) \/ IsErr(r)

ok(value) == [ok |-> TRUE, value |-> value]

\* `return {ok: false, err};` -- the property is named after the parameter
err(e) == [ok |-> FALSE, err |-> e]

\* what a caller reads as the diagnostic of a failure, whichever property
\* the object carries it in
Diagnostic(r) == IF "error" \in DOMAIN r THEN r.error
                 ELSE IF "err" \in DOMAIN r THEN r.err ELSE <<>>

\* ---------------------------------------------------------------- validate
InvalidTypeMsg(type) ==
    << Text("Invalid type ("), [type |-> type],
       Text("). Only images starting with 'image/' are allowed.") >>

InvalidQualityMsg(quality) ==
    << Text("Invalid argument 'quality' ("), [quality |-> quality],
       Text("). Value must be between 0.1 and 1.0") >>

validateImageType(file) ==
    IF ~StartsWith(file.type, ImagePrefix)
    THEN err(InvalidTypeMsg(file.type))
    ELSE ok(undefined)

validateQuality(quality) ==
    IF quality # undefined /\ (Lt(quality, Norm(1, 10)) \/ Gt(quality, Num(1)))
    THEN err(InvalidQualityMsg(quality))
    ELSE ok(undefined)

\* (mutant of validate: both checks run and their messages are joined)
validate_accumulating(img, quality) ==
    LET validType == validateImageType(img)
        validQuality == validateQuality(quality)
    IN  IF ~validType.ok /\ ~validQuality.ok
        THEN err(Diagnostic(validType) \o <<Text(" ")>> \o Diagnostic(validQuality))
        ELSE IF ~validType.ok THEN validType ELSE validQuality

validate(img, quality) ==
    LET validType == validateImageType(img)
    IN  IF ~validType.ok THEN validType ELSE validateQuality(quality)

\* ----------------------------------------------------------------- scaling
\* (mutant of scaleHeight: the result is truncated to whole pixels)
scaleHeight_truncated(originalWidth, originalHeight, resizedWidth) ==
    Num(ToUnsignedLong(Mul(Div(originalHeight, originalWidth), resizedWidth)))

scaleHeight(originalWidth, originalHeight, resizedWidth) ==
    Mul(Div(originalHeight, originalWidth), resizedWidth)

scaleWidth(originalWidth, originalHeight, resizedHeight) ==
    Mul(Div(originalWidth, originalHeight), resizedHeight)

\* ------------------------------------------------------------------ canvas
\* document.createElement('canvas'): 300 x 150, transparent
createCanvas == [width |-> 300, height |-> 150, bitmap |-> undefined]

\* `canvas.width = v` / `canvas.height = v`: the value is coerced to an
\* unsigned long and the bitmap is cleared
setWidth(canvas, v) ==
    [canvas EXCEPT !.width = ToUnsignedLong(v), !.bitmap = undefined]

setHeight(canvas, v) ==
    [canvas EXCEPT !.height = ToUnsignedLong(v), !.bitmap = undefined]

\* context.drawImage(image, 0, 0, dw, dh): the whole source scaled into the
\* destination rectangle dw x dh
drawImage(canvas, image, dw, dh) ==
    [canvas EXCEPT !.bitmap = [source |-> image, dw |-> dw, dh |-> dh]]

\* canvas.toDataURL(type, quality): "data:," for an empty canvas; PNG when
\* the environment cannot encode the requested type
toDataURL(canvas, type, quality, env) ==
    IF canvas.width = 0 \/ canvas.height = 0
    THEN [mime |-> <<>>, width |-> 0, height |-> 0, bitmap |-> undefined,
          quality |-> undefined]
    ELSE [mime |-> IF type \in env.encoders THEN type ELSE ImagePng,
          width |-> canvas.width, height |-> canvas.height,
          bitmap |-> canvas.bitmap, quality |-> quality]

\* ------------------------------------------------------------------ resize
\* (mutant of resize: the canvas keeps the native size of the first paint)
resize_native(image, width, height, quality, env) ==
    LET canvas  == createCanvas
        c1 == setHeight(setWidth(canvas, image.width), image.height)
        c2 == drawImage(c1, image, image.width, image.height)
        resized == toDataURL(c2, ImageWebp, quality, env)
    IN  IF ~env.context
        THEN [width |-> width, height |-> height, canvas |-> undefined,
              result |-> err(<<Text("Canvas 2d context not available!")>>)]
        ELSE [width |-> width, height |-> height, canvas |-> c2,
              result |-> ok(resized)]

\* One run of resize(): the arguments it was called with, the canvas as it
\* was serialized (undefined when no context was obtained) and the Result.
resize(image, width, height, quality, env) ==
    LET canvas  == createCanvas
        c1 == setHeight(setWidth(canvas, image.width), image.height)
        c2 == drawImage(c1, image, image.width, image.height)
        c3 == setHeight(setWidth(c2, width), height)
        c4 == drawImage(c3, image, width, height)
        resized == toDataURL(c4, ImageWebp, quality, env)
    IN  IF ~env.context
        THEN [width |-> width, height |-> height, canvas |-> undefined,
              result |-> err(<<Text("Canvas 2d context not available!")>>)]
        ELSE [width |-> width, height |-> height, canvas |-> c4,
              result |-> ok(resized)]

\* the callbacks handed to loadImageAndCall
resizeWidthAndHeight(image, width, height, quality, env) ==
    resize(image, width, height, quality, env)

resizeWidth(image, width, quality, env) ==
    LET height == scaleHeight(image.width, image.height, width)
    IN  resize(image, width, height, quality, env)

resizeHeight(image, height, quality, env) ==
    LET width == scaleWidth(image.width, image.height, height)
    IN  resize(image, width, height, quality, env)

\* ------------------------------------------------------------------- state
\* Two invocation slots; each is one call of an entry point.
Calls == {"a", "b"}

VARIABLES
    pc,        \* pc[c]: "idle", "reading", "decoding", "awaiting" or "done"
    args,      \* args[c]: the arguments of the call
    isValid,   \* isValid[c]: the local `isValid` of readImageAndCall
    reader,    \* reader[c]: the FileReader: reads started, event fired
    image,     \* image[c]: the Image: loads started, event fired, size, and
               \*           the environment its 'load' listener ran in
    run,       \* run[c]: the runs of resize(), in order
    inner,     \* inner[c]: the promise of loadImageAndCall
    promise    \* promise[c]: the promise the entry point returned

vars == <<pc, args, isValid, reader, image, run, inner, promise>>

\* a promise that is not settled yet
Pending == undefined

\* resolve(v) settles a pending promise and is ignored by a settled one
Resolve(p, v) == IF p = Pending THEN v ELSE p

\* JavaScript `!v` for v an object or undefined: every object is truthy
Not(v) == v = undefined

\* ------------------------------------------------------------------ inputs
\* the functions resize-image.ts exports
Entries == {"resizeImage", "resizeImageWidth", "resizeImageHeight"}

Files == { [type |-> ImagePng], [type |-> TextPlain], [type |-> <<>>] }

\* absent, 0.05, 0.1, 1.0 and 1.5
Qualities == { undefined, Norm(1, 20), Norm(1, 10), Num(1), Norm(3, 2) }

Dims == { Num(k) : k \in (1 .. MaxDim) \cup {400} }

\* intrinsic sizes of the decoded image
Sizes == ((1 .. MaxDim) \X (1 .. MaxDim)) \cup { <<1000, 500>> }

\* what the environment offers to one run of resize(): a 2d context or
\* none, and the image types its canvas can encode (PNG always)
Envs == [ context : BOOLEAN,
          encoders : { {ImagePng, ImageJpeg},
                       {ImagePng, ImageJpeg, ImageWebp} } ]

\* the argument lists of the three exported functions
ArgsImage ==
    [ entry : {"resizeImage"}, img : Files, width : Dims, height : Dims,
      quality : Qualities, type : {undefined} ]

ArgsWidth ==
    [ entry : {"resizeImageWidth"}, img : Files, width : Dims,
      height : {undefined}, quality : Qualities, type : {undefined} ]

ArgsHeight ==
    [ entry : {"resizeImageHeight"}, img : Files, width : {undefined},
      height : Dims, quality : Qualities, type : {undefined} ]

NoArgs == [ entry |-> "", img |-> [type |-> <<>>], width |-> undefined,
            height |-> undefined, quality |-> undefined, type |-> undefined ]

NoReader == [ reads |-> 0, event |-> "none", result |-> "none" ]

NoImage == [ loads |-> 0, event |-> "none", width |-> undefined,
             height |-> undefined, env |-> undefined ]

Init ==
    /\ pc = [c \in Calls |-> "idle"]
    /\ args = [c \in Calls |-> NoArgs]
    /\ isValid = [c \in Calls |-> undefined]
    /\ reader = [c \in Calls |-> NoReader]
    /\ image = [c \in Calls |-> NoImage]
    /\ run = [c \in Calls |-> <<>>]
    /\ inner = [c \in Calls |-> Pending]
    /\ promise = [c \in Calls |-> Pending]

\* ----------------------------------------------------------------- actions
\* readImageAndCall up to the return of the Promise executor: validate,
\* then either resolve with the validation result or start the read
readImageAndCall(c, a) ==
    /\ pc[c] = "idle"
    /\ args' = [args EXCEPT ![c] = a]
    /\ LET v == validate(a.img, a.quality)
       IN  /\ isValid' = [isValid EXCEPT ![c] = v]
           /\ IF Not(v)
              THEN /\ promise' = [promise EXCEPT ![c] = Resolve(@, v)]
                   /\ pc' = [pc EXCEPT ![c] = "done"]
                   /\ UNCHANGED reader
              ELSE /\ reader' = [reader EXCEPT ![c].reads = @ + 1]
                   /\ pc' = [pc EXCEPT ![c] = "reading"]
                   /\ UNCHANGED promise
    /\ UNCHANGED <<image, run, inner>>

\* reader 'abort' listener
ReaderAbort(c) ==
    /\ pc[c] = "reading"
    /\ reader' = [reader EXCEPT ![c].event = "abort"]
    /\ promise' = [promise EXCEPT
                     ![c] = Resolve(@, err(<<Text("Reading image file was aborted!")>>))]
    /\ pc' = [pc EXCEPT ![c] = "done"]
    /\ UNCHANGED <<args, isValid, image, run, inner>>

\* reader 'error' listener
ReaderError(c) ==
    /\ pc[c] = "reading"
    /\ reader' = [reader EXCEPT ![c].event = "error"]
    /\ promise' = [promise EXCEPT
                     ![c] = Resolve(@, err(<<Text("Error while reading image file!")>>))]
    /\ pc' = [pc EXCEPT ![c] = "done"]
    /\ UNCHANGED <<args, isValid, image, run, inner>>

\* (mutant of ReaderLoad: the `typeof reader.result` test is missing)
ReaderLoad_unchecked(c, result) ==
    /\ pc[c] = "reading"
    /\ reader' = [reader EXCEPT ![c].event = "load", ![c].result = result]
    /\ image' = [image EXCEPT ![c].loads = @ + 1]
    /\ pc' = [pc EXCEPT ![c] = "decoding"]
    /\ UNCHANGED <<args, isValid, run, inner, promise>>

\* reader 'load' listener up to its `await`: a non-string result resolves
\* with a failure; otherwise the callback runs loadImageAndCall, which
\* creates the Image and sets its src
ReaderLoad(c, result) ==
    /\ pc[c] = "reading"
    /\ reader' = [reader EXCEPT ![c].event = "load", ![c].result = result]
    /\ IF result # "string"
       THEN /\ promise' = [promise EXCEPT
                  ![c] = Resolve(@, err(<<Text("Loaded image file is not of type (base64) string!")>>))]
            /\ pc' = [pc EXCEPT ![c] = "done"]
            /\ UNCHANGED image
       ELSE /\ image' = [image EXCEPT ![c].loads = @ + 1]
            /\ pc' = [pc EXCEPT ![c] = "decoding"]
            /\ UNCHANGED promise
    /\ UNCHANGED <<args, isValid, run, inner>>

\* (mutant of ImageAbort: the abort is delivered to every decode in flight,
\* as it would be with one image shared by all calls)
ImageAbort_global(c) ==
    /\ pc[c] = "decoding"
    /\ image' = [image EXCEPT ![c].event = "abort"]
    /\ inner' = [d \in Calls |->
                   IF pc[d] = "decoding"
                   THEN Resolve(inner[d], err(<<Text("Loading image with base64 string aborted!")>>))
                   ELSE inner[d]]
    /\ pc' = [pc EXCEPT ![c] = "awaiting"]
    /\ UNCHANGED <<args, isValid, reader, run, promise>>

\* image 'abort' listener
ImageAbort(c) ==
    /\ pc[c] = "decoding"
    /\ image' = [image EXCEPT ![c].event = "abort"]
    /\ inner' = [inner EXCEPT
                   ![c] = Resolve(@, err(<<Text("Loading image with base64 string aborted!")>>))]
    /\ pc' = [pc EXCEPT ![c] = "awaiting"]
    /\ UNCHANGED <<args, isValid, reader, run, promise>>

\* (mutant of ImageError: no 'error' listener is registered, so the
\* promise of loadImageAndCall stays pending and the `await` never resumes)
ImageError_unhandled(c) ==
    /\ pc[c] = "decoding"
    /\ image' = [image EXCEPT ![c].event = "error"]
    /\ pc' = [pc EXCEPT ![c] = "unhandled"]
    /\ UNCHANGED <<args, isValid, reader, run, inner, promise>>

\* image 'error' listener
ImageError(c) ==
    /\ pc[c] = "decoding"
    /\ image' = [image EXCEPT ![c].event = "error"]
    /\ inner' = [inner EXCEPT
                   ![c] = Resolve(@, err(<<Text("Error while loading image with base64 string!")>>))]
    /\ pc' = [pc EXCEPT ![c] = "awaiting"]
    /\ UNCHANGED <<args, isValid, reader, run, promise>>

\* the callback the entry point of call c built, applied to the loaded image
Callback(a, img, env) ==
    CASE a.entry = "resizeImage" ->
           resizeWidthAndHeight(img, a.width, a.height, a.quality, env)
      [] a.entry = "resizeImageWidth" ->
           resizeWidth(img, a.width, a.quality, env)
      [] a.entry = "resizeImageHeight" ->
           resizeHeight(img, a.height, a.quality, env)

\* image 'load' listener: resolve(callback(image))
ImageLoad(c, size, env) ==
    /\ pc[c] = "decoding"
    /\ args[c].entry \in Entries
    /\ LET img == [width |-> Num(size[1]), height |-> Num(size[2])]
           r == Callback(args[c], img, env)
       IN  /\ image' = [image EXCEPT ![c].event = "load",
                                     ![c].width = img.width,
                                     ![c].height = img.height,
                                     ![c].env = env]
           /\ run' = [run EXCEPT ![c] = Append(@, r)]
           /\ inner' = [inner EXCEPT ![c] = Resolve(@, r.result)]
    /\ pc' = [pc EXCEPT ![c] = "awaiting"]
    /\ UNCHANGED <<args, isValid, reader, promise>>

\* the reader 'load' listener after its `await`: resolve(result)
ReaderLoadResume(c) ==
    /\ pc[c] = "awaiting"
    /\ promise' = [promise EXCEPT ![c] = Resolve(@, inner[c])]
    /\ pc' = [pc EXCEPT ![c] = "done"]
    /\ UNCHANGED <<args, isValid, reader, image, run, inner>>

\* the exported functions
resizeImage(c) == \E a \in ArgsImage : readImageAndCall(c, a)

resizeImageWidth(c) == \E a \in ArgsWidth : readImageAndCall(c, a)

resizeImageHeight(c) == \E a \in ArgsHeight : readImageAndCall(c, a)

\* One invocation (slot "a") under every environment.
Next ==
    \/ resizeImage("a")
    \/ resizeImageWidth("a")
    \/ resizeImageHeight("a")
    \/ ReaderAbort("a")
    \/ ReaderError("a")
    \/ \E result \in {"string", "ArrayBuffer", "null"} : ReaderLoad("a", result)
    \/ ImageAbort("a")
    \/ ImageError("a")
    \/ \E size \in Sizes, env \in Envs : ImageLoad("a", size, env)
    \/ ReaderLoadResume("a")

Spec == Init /\ [][Next]_vars

\* The environment's part: the one event a started read ends with, the one
\* event a started decode ends with.
ReaderEvent(c) ==
    \/ ReaderAbort(c)
    \/ ReaderError(c)
    \/ \E result \in {"string", "ArrayBuffer", "null"} : ReaderLoad(c, result)

ImageEvent(c) ==
    \/ ImageAbort(c)
    \/ ImageError(c)
    \/ \E size \in Sizes, env \in Envs : ImageLoad(c, size, env)

\* One invocation in an environment that fires an event for every read and
\* every decode that was started; the continuation of the `await` is a
\* microtask, which the event loop runs once the awaited promise is settled.
SpecFair ==
    /\ Init /\ [][Next]_vars
    /\ WF_vars(ReaderEvent("a"))
    /\ WF_vars(ImageEvent("a"))
    /\ WF_vars(ReaderLoadResume("a"))

\* -------------------------------------------------------------------- PAIR
\* Two invocations in flight at once, their callbacks interleaved in every
\* order.  The inputs are kept small: an image and a text blob, quality
\* absent or 1.5, one requested size, two intrinsic sizes.
PairFiles == { [type |-> ImagePng], [type |-> TextPlain] }

PairQualities == { undefined, Norm(3, 2) }

PairDims == { Num(2) }

PairSizes == { <<1, 2>>, <<2, 1>> }

PairEnvs == [ context : BOOLEAN, encoders : { {ImagePng, ImageJpeg, ImageWebp} } ]

ArgsPair ==
    [ entry : {"resizeImage"}, img : PairFiles, width : PairDims,
      height : PairDims, quality : PairQualities, type : {undefined} ]
    \cup
    [ entry : {"resizeImageWidth"}, img : PairFiles, width : PairDims,
      height : {undefined}, quality : PairQualities, type : {undefined} ]
    \cup
    [ entry : {"resizeImageHeight"}, img : PairFiles, width : {undefined},
      height : PairDims, quality : PairQualities, type : {undefined} ]

PairReaderEvent(c) ==
    \/ ReaderAbort(c)
    \/ ReaderError(c)
    \/ \E result \in {"string", "ArrayBuffer"} : ReaderLoad(c, result)

PairImageEvent(c) ==
    \/ ImageAbort(c)
    \/ ImageError(c)
    \/ \E size \in PairSizes, env \in PairEnvs : ImageLoad(c, size, env)

NextPair ==
    \/ \E c \in Calls, a \in ArgsPair : readImageAndCall(c, a)
    \/ \E c \in Calls : ReaderAbort(c)
    \/ \E c \in Calls : ReaderError(c)
    \/ \E c \in Calls, result \in {"string", "ArrayBuffer"} : ReaderLoad(c, result)
    \/ \E c \in Calls : ImageAbort(c)
    \/ \E c \in Calls : ImageError(c)
    \/ \E c \in Calls, size \in PairSizes, env \in PairEnvs : ImageLoad(c, size, env)
    \/ \E c \in Calls : ReaderLoadResume(c)

\* The environment ends every read and decode of call "b"; those of call
\* "a" may be aborted, fail, or hang for ever.
SpecPair ==
    /\ Init /\ [][NextPair]_vars
    /\ WF_vars(PairReaderEvent("b"))
    /\ WF_vars(PairImageEvent("b"))
    /\ WF_vars(ReaderLoadResume("b"))

\* -------------------------------------------------------------------- FLEX
\* The options-object entry point resizeImg(img, opt) of README.md.  It has
\* no code in resize-image.ts; the definitions of this section follow the
\* specification (Validator, Dimension Resolver, Resizer) and are built on
\* the library's own ok() / err(), reader and image stages.
MissingDimensionsMsg == <<Text("either width or height must be set")>>

Separator == <<Text(", ")>>

RECURSIVE Join(_)
Join(msgs) ==
    IF Len(msgs) = 0 THEN <<>>
    ELSE IF Len(msgs) = 1 THEN msgs[1]
    ELSE msgs[1] \o Separator \o Join(Tail(msgs))

\* Validator: every applicable message is recorded, in order, and joined
validateOptions(img, opt) ==
    LET typeErr == IF ~StartsWith(img.type, ImagePrefix)
                   THEN <<InvalidTypeMsg(img.type)>> ELSE <<>>
        qualityErr == IF opt.quality # undefined
                         /\ (Lt(opt.quality, Norm(1, 10)) \/ Gt(opt.quality, Num(1)))
                      THEN <<InvalidQualityMsg(opt.quality)>> ELSE <<>>
        dimErr == IF opt.width = undefined /\ opt.height = undefined
                  THEN <<MissingDimensionsMsg>> ELSE <<>>
        errors == typeErr \o qualityErr \o dimErr
    IN  IF Len(errors) > 0 THEN err(Join(errors)) ELSE ok(undefined)

\* Dimension Resolver
resolve(opt, intrinsicWidth, intrinsicHeight) ==
    IF opt.width # undefined /\ opt.height # undefined
    THEN ok([width |-> opt.width, height |-> opt.height])
    ELSE IF opt.width # undefined
    THEN ok([width |-> opt.width,
             height |-> Mul(Div(intrinsicHeight, intrinsicWidth), opt.width)])
    ELSE IF opt.height # undefined
    THEN ok([width |-> Mul(Div(intrinsicWidth, intrinsicHeight), opt.height),
             height |-> opt.height])
    ELSE err(<<Text("unknown dimensions")>>)

\* Resizer: as resize(), serialized in the requested output format (PNG
\* when none is requested)
resizeAs(img, width, height, quality, outputFormat, env) ==
    LET c1 == setHeight(setWidth(createCanvas, img.width), img.height)
        c2 == drawImage(c1, img, img.width, img.height)
        c3 == setHeight(setWidth(c2, width), height)
        c4 == drawImage(c3, img, width, height)
        type == IF outputFormat = undefined THEN ImagePng ELSE outputFormat
    IN  IF ~env.context
        THEN [width |-> width, height |-> height, canvas |-> undefined,
              result |-> err(<<Text("Canvas 2d context not available!")>>)]
        ELSE [width |-> width, height |-> height, canvas |-> c4,
              result |-> ok(toDataURL(c4, type, quality, env))]

\* the inputs of the comparison of resizeImg with resizeImage
FlexFiles == { [type |-> ImagePng], [type |-> TextPlain] }

FlexQualities == { undefined, Norm(3, 2) }

FlexDims == { Num(1), Num(2) }

FlexSizes == { <<1, 2>>, <<2, 1>> }

ArgsFlex ==
    [ entry : {"resizeImg"}, img : FlexFiles,
      width : FlexDims \cup {undefined}, height : FlexDims \cup {undefined},
      quality : FlexQualities, type : {undefined, ImageJpeg} ]

ArgsImageFlex ==
    [ entry : {"resizeImage"}, img : FlexFiles, width : FlexDims,
      height : FlexDims, quality : FlexQualities, type : {undefined} ]

\* resizeImg up to the return of the Promise executor: a rejected input is
\* resolved at once, with no I/O; otherwise the read is started
resizeImg(c) ==
    \E a \in ArgsFlex :
        /\ pc[c] = "idle"
        /\ args' = [args EXCEPT ![c] = a]
        /\ LET v == validateOptions(a.img, a)
           IN  /\ isValid' = [isValid EXCEPT ![c] = v]
               /\ IF ~v.ok
                  THEN /\ promise' = [promise EXCEPT ![c] = Resolve(@, v)]
                       /\ pc' = [pc EXCEPT ![c] = "done"]
                       /\ UNCHANGED reader
                  ELSE /\ reader' = [reader EXCEPT ![c].reads = @ + 1]
                       /\ pc' = [pc EXCEPT ![c] = "reading"]
                       /\ UNCHANGED promise
        /\ UNCHANGED <<image, run, inner>>

\* image 'load' listener of a resizeImg call: resolve the dimensions, resize
FlexImageLoad(c, size, env) ==
    /\ pc[c] = "decoding"
    /\ args[c].entry = "resizeImg"
    /\ LET img == [width |-> Num(size[1]), height |-> Num(size[2])]
           d == resolve(args[c], img.width, img.height)
           r == resizeAs(img, d.value.width, d.value.height, args[c].quality,
                         args[c].type, env)
       IN  /\ image' = [image EXCEPT ![c].event = "load",
                                     ![c].width = img.width,
                                     ![c].height = img.height,
                                     ![c].env = env]
           /\ IF ~d.ok
              THEN /\ inner' = [inner EXCEPT ![c] = Resolve(@, d)]
                   /\ UNCHANGED run
              ELSE /\ run' = [run EXCEPT ![c] = Append(@, r)]
                   /\ inner' = [inner EXCEPT ![c] = Resolve(@, r.result)]
    /\ pc' = [pc EXCEPT ![c] = "awaiting"]
    /\ UNCHANGED <<args, isValid, reader, promise>>

\* the same blob handed to resizeImg (slot "a") and to resizeImage (slot "b")
NextFlex ==
    \/ resizeImg("a")
    \/ \E a \in ArgsImageFlex : readImageAndCall("b", a)
    \/ \E c \in Calls : ReaderAbort(c)
    \/ \E c \in Calls : ReaderError(c)
    \/ \E c \in Calls, result \in {"string", "ArrayBuffer"} : ReaderLoad(c, result)
    \/ \E c \in Calls : ImageAbort(c)
    \/ \E c \in Calls : ImageError(c)
    \/ \E size \in FlexSizes, env \in Envs : ImageLoad("b", size, env)
    \/ \E size \in FlexSizes, env \in Envs : FlexImageLoad("a", size, env)
    \/ \E c \in Calls : ReaderLoadResume(c)

SpecFlex == Init /\ [][NextFlex]_vars

\* ------------------------------------------------------- claim vocabulary
Called(c) == args[c].entry \in Entries

Settled(c) == promise[c] # Pending

Failed(r) == r # undefined /\ r.ok = FALSE

Succeeded(r) == r # undefined /\ r.ok = TRUE

\* the message m embeds the media type t / the quality q
MentionsType(m, t) ==
    \E i \in DOMAIN m : "type" \in DOMAIN m[i] /\ m[i].type = t

MentionsQuality(m, q) ==
    \E i \in DOMAIN m : "quality" \in DOMAIN m[i] /\ m[i].quality = q

MentionsAnyType(m) == \E i \in DOMAIN m : "type" \in DOMAIN m[i]

MentionsAnyQuality(m) == \E i \in DOMAIN m : "quality" \in DOMAIN m[i]

ImageTyped(a) == StartsWith(a.img.type, ImagePrefix)

QualityInRange(q) ==
    q = undefined \/ (~Lt(q, Norm(1, 10)) /\ ~Gt(q, Num(1)))

\* ---------------------------------------------------------------- C1 .. C4
\* C1: for every entry point and every blob whose media type does not start
\* with 'image/', the outcome returned to the caller is a failure whose
\* message contains the offending type string, whatever the read and decode
\* events are.
C1_NonImageRejected ==
    \A c \in Calls :
        (Called(c) /\ ~ImageTyped(args[c]) /\ Settled(c))
            => /\ Failed(promise[c])
               /\ MentionsType(Diagnostic(promise[c]), args[c].img.type)

\* C2: for an image-typed blob, a supplied quality below 0.1 or above 1.0
\* always yields a failure whose message contains that quality, and an
\* absent quality or one in [0.1, 1.0] (bounds included) is never failed
\* because of quality.
C2_QualityRangeEnforced ==
    \A c \in Calls :
        (Called(c) /\ ImageTyped(args[c]) /\ Settled(c))
            => IF QualityInRange(args[c].quality)
               THEN ~MentionsAnyQuality(Diagnostic(promise[c]))
               ELSE /\ Failed(promise[c])
                    /\ MentionsQuality(Diagnostic(promise[c]), args[c].quality)

\* C3: when validation of the blob type or of the quality fails, the blob
\* read is never started (and no decode and no drawing happens); the read
\* is started only after validation has succeeded.
C3_NoReadAfterRejection ==
    \A c \in Calls :
        (Called(c) /\ Failed(isValid[c]))
            => /\ reader[c].reads = 0
               /\ image[c].loads = 0
               /\ run[c] = <<>>

\* C4: every outcome produced by ok() or err(), and so every outcome an
\* entry point returns, is a well-formed tagged union: ok = true with the
\* payload in 'value', or ok = false with the diagnostic in 'error'.
C4_OutcomeWellFormed ==
    \A c \in Calls :
        \A r \in {isValid[c], inner[c], promise[c]} :
            r # undefined => IsResult(r)

\* ---------------------------------------------------------------- C5 .. C9
\* C5: for a decoded source of intrinsic size (W0, H0), resizeImageWidth
\* with width W passes to the resizer exactly (W, (H0/W0)*W) and
\* resizeImageHeight with height H passes exactly ((W0/H0)*H, H); the value
\* is not rounded before it is used for the canvas and the draw.
C5_AspectPreserved ==
    \A c \in Calls : \A i \in DOMAIN run[c] :
        LET r == run[c][i]
            a == args[c]
            W0 == image[c].width[1]
            H0 == image[c].height[1]
        IN  /\ a.entry = "resizeImageWidth" =>
                 /\ r.width = a.width
                 /\ r.height[1] * W0 = H0 * a.width[1] * r.height[2]
            /\ a.entry = "resizeImageHeight" =>
                 /\ r.height = a.height
                 /\ r.width[1] * H0 = W0 * a.height[1] * r.width[2]
            /\ (a.entry # "resizeImage" /\ r.canvas # undefined) =>
                 /\ r.canvas.bitmap.dw = r.width
                 /\ r.canvas.bitmap.dh = r.height

\* witness of C5: a 1000x500 source and width 400 reach the resizer as
\* 400x200, and a 2x1 source and width 1 as 1 x 1/2
C5_Witness ==
    /\ args["a"].entry = "resizeImageWidth"
    /\ args["a"].width = Num(400)
    /\ image["a"].width = Num(1000) /\ image["a"].height = Num(500)
    /\ Len(run["a"]) = 1
    /\ run["a"][1].width = Num(400) /\ run["a"][1].height = Num(200)
    /\ Succeeded(promise["a"])

C7_RequestedFormat ==
    \A c \in Calls :
        (Called(c) /\ Succeeded(promise[c]) /\ promise[c].value.mime # <<>>)
            => promise[c].value.mime =
                 (IF args[c].type = undefined THEN ImagePng ELSE args[c].type)

C9_ExactSize ==
    \A c \in Calls :
        (args[c].entry = "resizeImage" /\ Succeeded(promise[c])) =>
            /\ Len(run[c]) = 1
            /\ run[c][1].width = args[c].width
            /\ run[c][1].height = args[c].height
            /\ Num(promise[c].value.width) = args[c].width
            /\ Num(promise[c].value.height) = args[c].height
            /\ promise[c].value.bitmap =
                 [ source |-> [width |-> image[c].width, height |-> image[c].height],
                   dw |-> args[c].width, dh |-> args[c].height ]

\* witness of C9: a 1x2 source resized to 2x1 (the aspect ratio is not kept)
C9_Witness ==
    /\ args["a"].entry = "resizeImage"
    /\ args["a"].width = Num(2) /\ args["a"].height = Num(1)
    /\ image["a"].width = Num(1) /\ image["a"].height = Num(2)
    /\ Succeeded(promise["a"])
    /\ promise["a"].value.width = 2 /\ promise["a"].value.height = 1

\* --------------------------------------------------------------------- C10
\* slot "a" is resizeImg(img, opt) with width and height set and no output
\* type, slot "b" is resizeImage(img, width, height, quality) on the same
\* arguments
SameCall ==
    /\ args["a"].entry = "resizeImg" /\ args["b"].entry = "resizeImage"
    /\ args["a"].img = args["b"].img
    /\ args["a"].width = args["b"].width
    /\ args["a"].height = args["b"].height
    /\ args["a"].quality = args["b"].quality
    /\ args["a"].type = undefined

\* C10: resizeImg(img, opt) fails with a missing-dimensions message when
\* opt carries neither width nor height, and with both set it behaves
\* exactly like resizeImage(img, width, height, quality): the two start the
\* same I/O, and under the same read and decode events and the same
\* environment they settle with the same outcome.
C10_FlexEntryPoint ==
    /\ ( /\ args["a"].entry = "resizeImg"
         /\ args["a"].width = undefined /\ args["a"].height = undefined )
         => /\ Failed(promise["a"])
            /\ \E i \in DOMAIN Diagnostic(promise["a"]) :
                   <<Diagnostic(promise["a"])[i]>> = MissingDimensionsMsg
            /\ reader["a"].reads = 0
    /\ SameCall =>
         /\ reader["a"].reads = reader["b"].reads
         /\ ( /\ pc["a"] = "done" /\ pc["b"] = "done"
              /\ reader["a"] = reader["b"]
              /\ image["a"] = image["b"] )
              => promise["a"] = promise["b"]

\* --------------------------------------------------------------------- C11
\* C11: provided the environment fires one of load / abort / error for
\* every read and every decode that was started, the promise an entry point
\* returned is eventually resolved with a success or a failure outcome; it
\* is resolved at most once and the resolved outcome never changes.
C11_ExactlyOneOutcome ==
    /\ \A c \in Calls : (pc[c] # "idle") ~> Settled(c)
    /\ [](\A c \in Calls :
            Settled(c) => /\ "ok" \in DOMAIN promise[c]
                          /\ promise[c].ok \in BOOLEAN
                          /\ pc[c] = "done")
    /\ [][\A c \in Calls : Settled(c) => promise'[c] = promise[c]]_vars

\* witness of C11: a call whose read and decode both fired 'load' and whose
\* promise is resolved with the success outcome of resize()
C11_Witness ==
    /\ reader["a"].event = "load"
    /\ image["a"].event = "load"
    /\ pc["a"] = "done"
    /\ Succeeded(promise["a"])
    /\ promise["a"] = inner["a"]

\* --------------------------------------------------------------------- C12
\* everything the model keeps for invocation c
Slot(c) ==
    <<pc[c], args[c], isValid[c], reader[c], image[c], run[c], inner[c], promise[c]>>

\* the outcome the code computes from one call's own arguments and the
\* events fired for its own reader, image and canvas
OwnOutcome(a, rd, im) ==
    IF rd.event = "abort"
    THEN err(<<Text("Reading image file was aborted!")>>)
    ELSE IF rd.event = "error"
    THEN err(<<Text("Error while reading image file!")>>)
    ELSE IF rd.event = "load" /\ rd.result # "string"
    THEN err(<<Text("Loaded image file is not of type (base64) string!")>>)
    ELSE IF im.event = "abort"
    THEN err(<<Text("Loading image with base64 string aborted!")>>)
    ELSE IF im.event = "error"
    THEN err(<<Text("Error while loading image with base64 string!")>>)
    ELSE IF im.event = "load"
    THEN Callback(a, [width |-> im.width, height |-> im.height], im.env).result
    ELSE Pending

\* C12: concurrent invocations are independent under every interleaving of
\* their callbacks: the outcome of an invocation is determined by its own
\* arguments and the events fired for its own reader, image and canvas; no
\* step of one invocation changes anything of the other; and an abort, an
\* error or a hang of one never blocks the other, whose events stay
\* deliverable and whose promise is resolved once its own events fire.
C12_Independent ==
    /\ [](\A c \in Calls :
            Settled(c) => promise[c] = OwnOutcome(args[c], reader[c], image[c]))
    /\ [][\A c, d \in Calls :
            (c # d /\ Slot(c)' # Slot(c)) => Slot(d)' = Slot(d)]_vars
    /\ [](\A c \in Calls :
            /\ pc[c] = "reading" => ENABLED PairReaderEvent(c)
            /\ pc[c] = "decoding" => ENABLED PairImageEvent(c)
            /\ pc[c] = "awaiting" => ENABLED ReaderLoadResume(c))
    /\ (pc["b"] # "idle") ~> Settled("b")

\* witness of C12: two calls with the same arguments, both in flight; the
\* decode of "a" was aborted and "b" is resolved with a success
C12_Witness ==
    /\ Called("a") /\ args["a"] = args["b"]
    /\ image["a"].event = "abort"
    /\ Failed(promise["a"])
    /\ image["b"].event = "load"
    /\ Succeeded(promise["b"])

=============================================================================
